---- MODULE Spec2Model ----
(***************************************************************************)
(* Model of the wimey command line library (src/wimey.c): the command and  *)
(* argument registries, the two scanners run by wimey_parse, and the value *)
(* converters.                                                             *)
(*                                                                         *)
(* Strings are sequences of one-character strings, so that strcmp is       *)
(* equality of sequences and strncmp(key, str, strlen(key)) is a prefix    *)
(* test.  Indices of the token vector are the C indices 0 .. argc-1; the   *)
(* token vector is the process argument vector, whose element argv[argc]   *)
(* is the null pointer.                                                    *)
(***************************************************************************)
EXTENDS Integers, Sequences, FiniteSets

VARIABLES
    cmds_head,   \* wimey_dict.cmds_head: the command list, in list order
    args_head,   \* wimey_dict.args_head: the argument list, in list order
    pc,          \* "ready" | "parsed" | "exited" | "crashed"
    argv,        \* token vector of the most recent wimey_parse call
    cmds_parse,  \* wimey_parse: status of __wimey_parse_commands
    args_parse,  \* wimey_parse: status of __wimey_parse_arguments
    result,      \* value returned by the most recent wimey_parse call
    calls,       \* callback invocations of that call, in order
    writes,      \* destination writes of that call, in order
    creads,      \* indices of argv read by the command scan of that call
    areads,      \* indices of argv read by the argument scan of that call
    cscan,       \* values of arg_i at which the command scan examined a token
    ascan,       \* values of arg_i at which the argument scan examined a token
    cmds_at,     \* value of arg_i when the command scan ended
    args_at,     \* value of arg_i when the argument scan ended
    exit_code,   \* status passed to exit, if that call ended the process
    dest,        \* host storage behind value_dest, as left by that call
    cmds_added,  \* history: the descriptors passed to wimey_add_command
                 \* since the last wimey_init or wimey_free_all, in order
    args_added,  \* history: the same for wimey_add_argument
    last_op,     \* history: the most recent library call, with the lengths
                 \* of the two lists when it was made
    conv,        \* the most recent direct call of a converter by the host:
                 \* its input, the value returned and whether the conversion
                 \* diagnostic was reported
    ref          \* history: an earlier wimey_parse call the host has kept
                 \* the outcome of, with the two lists as they were then

vars == <<cmds_head, args_head, pc, argv, cmds_parse, args_parse, result,
          calls, writes, creads, areads, cscan, ascan, cmds_at, args_at,
          exit_code, dest, cmds_added, args_added, last_op, conv, ref>>

-----------------------------------------------------------------------------
(* Constants of the library *)

WIMEY_OK == 1
WIMEY_ERR == 0

\* status of exit on the help path (line 462)
EXIT_SUCCESS == 0

\* the null pointer; no token is equal to it
NULL == <<"NULL">>

\* no status yet (no wimey_parse call is being observed)
NONE == 0 - 1

-----------------------------------------------------------------------------
(* Bounds of the model *)

MaxCmds == 2
MaxArgs == 2
MaxArgc == 3
MaxMixArgc == 4
MaxConvLen == 3

-----------------------------------------------------------------------------
(* Strings *)

\* strcmp(a, b) == 0
StrEq(a, b) == a = b

\* strncmp(key, str, strlen(key)) == 0: str starts with key
StrNCmpKey(key, str) ==
    /\ Len(key) <= Len(str)
    /\ SubSeq(str, 1, Len(key)) = key

\* argv[k] for 0 <= k <= argc; argv[argc] is the null pointer
ArgvAt(av, k) == IF k < Len(av) THEN av[k + 1] ELSE NULL

-----------------------------------------------------------------------------
(* Command registry *)

\* wimey_get_commands_head
wimey_get_commands_head == cmds_head

\* wimey_add_command linking the new node at the head of the list
AddCommandListAtHead(list, cmd) == <<cmd>> \o list

\* wimey_add_command, lines 187-199: append at the tail of the list
wimey_add_command_list(list, cmd) == Append(list, cmd)

\* __wimey_is_str_a_command with strcmp in place of strncmp
IsStrACommandExact(str) ==
    \E n \in 1..Len(wimey_get_commands_head) :
        StrEq(wimey_get_commands_head[n].key, str)

\* __wimey_is_str_a_command with the prefix test the other way round:
\* strncmp(key, str, strlen(str))
IsStrACommandReversed(str) ==
    \E n \in 1..Len(wimey_get_commands_head) :
        StrNCmpKey(str, wimey_get_commands_head[n].key)

\* __wimey_is_str_a_command taking the keys of the argument list for
\* commands as well
IsStrACommandOrArgument(str) ==
    \/ \E n \in 1..Len(wimey_get_commands_head) :
           StrNCmpKey(wimey_get_commands_head[n].key, str)
    \/ \E n \in 1..Len(args_head) :
           \/ StrNCmpKey(args_head[n].long_key, str)
           \/ StrNCmpKey(args_head[n].short_key, str)

\* __wimey_is_str_a_command: some registered key is a literal prefix of str
__wimey_is_str_a_command(str) ==
    \E n \in 1..Len(wimey_get_commands_head) :
        StrNCmpKey(wimey_get_commands_head[n].key, str)

\* __wimey_get_command_node returning the last node with the key
GetCommandNodeLast(str) ==
    LET hits == {n \in 1..Len(wimey_get_commands_head) :
                    StrEq(str, wimey_get_commands_head[n].key)}
    IN IF hits = {} THEN 0
       ELSE CHOOSE n \in hits : \A m \in hits : n >= m

\* __wimey_get_command_node: position of the first node whose key equals
\* str, 0 for the null pointer
__wimey_get_command_node(str) ==
    LET hits == {n \in 1..Len(wimey_get_commands_head) :
                    StrEq(str, wimey_get_commands_head[n].key)}
    IN IF hits = {} THEN 0
       ELSE CHOOSE n \in hits : \A m \in hits : n <= m

\* __wimey_check_command
__wimey_check_command(str) == __wimey_get_command_node(str) # 0

\* __wimey_process_command with the value dropped
ProcessCommandDropsValue(node, value, at) ==
    [node |-> node, value |-> NULL, at |-> at]

\* __wimey_process_command: the callback invocation it performs
__wimey_process_command(node, value, at) ==
    IF wimey_get_commands_head[node].has_value
    THEN [node |-> node, value |-> value, at |-> at]
    ELSE [node |-> node, value |-> NULL, at |-> at]

\* line 276 with the comparison of line 441
CmdOverflowLate(arg_i, argc) == arg_i + 1 > argc

\* __wimey_parse_commands, line 276: no token follows index arg_i
CmdOverflow(arg_i, argc) == arg_i + 1 >= argc

\* __wimey_parse_commands, line 273: first index of the scan
CmdFirstIndex == 0

RECURSIVE CmdLoop(_, _, _, _, _)

\* the body of the for loop dropping, on an error, the callbacks invoked so
\* far
CmdMatchRollsBack(av, arg_i, cs, rd1, sc1, node, overflow) ==
    LET cmd == wimey_get_commands_head[node]
        err == [ret |-> WIMEY_ERR, at |-> arg_i, calls |-> <<>>,
                reads |-> rd1, scan |-> sc1]
    IN
    IF node = 0 THEN err
    ELSE IF cmd.is_value_required /\ overflow THEN err
    ELSE IF cmd.has_value /\ ~overflow
      THEN IF ~__wimey_is_str_a_command(ArgvAt(av, arg_i + 1))
           THEN CmdLoop(av, arg_i + 2,
                        Append(cs, __wimey_process_command(
                                       node, ArgvAt(av, arg_i + 1), arg_i)),
                        rd1 \cup {arg_i + 1}, sc1)
           ELSE CmdLoop(av, arg_i + 1,
                        Append(cs, __wimey_process_command(node, NULL, arg_i)),
                        rd1 \cup {arg_i + 1}, sc1)
    ELSE CmdLoop(av, arg_i + 1, cs, rd1, sc1)

\* __wimey_parse_commands, lines 281-318: the body of the for loop at a token
\* that is a registered key; node is its node and overflow as on line 276
CmdMatch(av, arg_i, cs, rd1, sc1, node, overflow) ==
    LET cmd == wimey_get_commands_head[node]
        err == [ret |-> WIMEY_ERR, at |-> arg_i, calls |-> cs,
                reads |-> rd1, scan |-> sc1]
    IN
    IF node = 0 THEN err
    ELSE IF cmd.is_value_required /\ overflow THEN err
    ELSE IF cmd.has_value /\ ~overflow
      THEN IF ~__wimey_is_str_a_command(ArgvAt(av, arg_i + 1))
           THEN CmdLoop(av, arg_i + 2,
                        Append(cs, __wimey_process_command(
                                       node, ArgvAt(av, arg_i + 1), arg_i)),
                        rd1 \cup {arg_i + 1}, sc1)
           ELSE CmdLoop(av, arg_i + 1,
                        Append(cs, __wimey_process_command(node, NULL, arg_i)),
                        rd1 \cup {arg_i + 1}, sc1)
    ELSE CmdLoop(av, arg_i + 1, cs, rd1, sc1)

\* __wimey_parse_commands, lines 273-319: the for loop from index arg_i on,
\* with the callback invocations (cs), the indices read (rd) and the indices
\* examined (sc) so far
CmdLoop(av, arg_i, cs, rd, sc) ==
    IF ~(arg_i < Len(av))
    THEN [ret |-> WIMEY_OK, at |-> arg_i, calls |-> cs, reads |-> rd,
          scan |-> sc]
    ELSE IF ~__wimey_check_command(ArgvAt(av, arg_i))
    THEN CmdLoop(av, arg_i + 1, cs, rd \cup {arg_i}, sc \cup {arg_i})
    ELSE CmdMatch(av, arg_i, cs, rd \cup {arg_i}, sc \cup {arg_i},
                  __wimey_get_command_node(ArgvAt(av, arg_i)),
                  CmdOverflow(arg_i, Len(av)))

\* __wimey_parse_commands with argc < 1 on line 268
ParseCommandsArgcBelowOne(av) ==
    IF wimey_get_commands_head = <<>>
    THEN [ret |-> WIMEY_OK, at |-> 0, calls |-> <<>>, reads |-> {},
          scan |-> {}]
    ELSE IF Len(av) < 1
    THEN [ret |-> WIMEY_ERR, at |-> 0, calls |-> <<>>, reads |-> {},
          scan |-> {}]
    ELSE CmdLoop(av, CmdFirstIndex, <<>>, {}, {})

\* __wimey_parse_commands
__wimey_parse_commands(av) ==
    IF wimey_get_commands_head = <<>>
    THEN [ret |-> WIMEY_OK, at |-> 0, calls |-> <<>>, reads |-> {},
          scan |-> {}]
    ELSE IF Len(av) < 2
    THEN [ret |-> WIMEY_ERR, at |-> 0, calls |-> <<>>, reads |-> {},
          scan |-> {}]
    ELSE CmdLoop(av, CmdFirstIndex, <<>>, {}, {})

-----------------------------------------------------------------------------
(* Value converters *)

Digits == <<"0", "1", "2", "3", "4", "5", "6", "7", "8", "9">>

IsDigit(c) == \E k \in 1..10 : Digits[k] = c

\* value of a digit character
DigitVal(c) == (CHOOSE k \in 1..10 : Digits[k] = c) - 1

\* isspace
IsSpace(c) == c \in {" ", "\t", "\n", "\r"}

\* number of leading characters of s, from position k on, that are spaces
RECURSIVE SpaceRun(_, _)
SpaceRun(s, k) ==
    IF k <= Len(s) /\ IsSpace(s[k]) THEN 1 + SpaceRun(s, k + 1) ELSE 0

\* number of leading characters of s, from position k on, that are digits:
\* the run stops at the first position that holds no digit, or at the end
DigitRun(s, k) ==
    LET stop == {j \in k..(Len(s) + 1) : j = Len(s) + 1 \/ ~IsDigit(s[j])}
    IN (CHOOSE j \in stop : \A m \in stop : j <= m) - k

\* a digit sequence without its leading zeros
StripZeros(ds) ==
    LET stop == {j \in 1..(Len(ds) + 1) : j = Len(ds) + 1 \/ ds[j] # "0"}
    IN SubSeq(ds, CHOOSE j \in stop : \A m \in stop : j <= m, Len(ds))

\* value of a digit sequence
RECURSIVE DigitsValue(_)
DigitsValue(ds) ==
    IF ds = <<>> THEN 0
    ELSE 10 * DigitsValue(SubSeq(ds, 1, Len(ds) - 1)) + DigitVal(ds[Len(ds)])

\* a > b for digit sequences of equal length
RECURSIVE DigitsGreater(_, _)
DigitsGreater(a, b) ==
    IF a = <<>> THEN FALSE
    ELSE IF DigitVal(a[1]) # DigitVal(b[1]) THEN DigitVal(a[1]) > DigitVal(b[1])
    ELSE DigitsGreater(Tail(a), Tail(b))

\* decimal digits of LONG_MAX and of -LONG_MIN for a 64-bit long
LongMaxDigits ==
    <<"9","2","2","3","3","7","2","0","3","6","8","5","4","7","7","5","8","0","7">>
LongMinDigits ==
    <<"9","2","2","3","3","7","2","0","3","6","8","5","4","7","7","5","8","0","8">>

\* the magnitude ds (no leading zeros) does not fit a long of the given sign
OutOfLongRange(ds, negative) ==
    LET lim == IF negative THEN LongMinDigits ELSE LongMaxDigits
    IN \/ Len(ds) > Len(lim)
       \/ Len(ds) = Len(lim) /\ DigitsGreater(ds, lim)

\* strtol, once the digits are found: ds is the digit run without leading
\* zeros and end the number of characters before p_end
StrToLValue(ds, negative, end) ==
    IF OutOfLongRange(ds, negative)
    THEN [res |-> 0, end |-> end, erange |-> TRUE]
    ELSE [res |-> IF negative THEN 0 - DigitsValue(ds) ELSE DigitsValue(ds),
          end |-> end, erange |-> FALSE]

\* strtol, after the sign: the digits start at position first and are nd
StrToLDigits(s, negative, first, nd) ==
    IF nd = 0 THEN [res |-> 0, end |-> 0, erange |-> FALSE]
    ELSE StrToLValue(StripZeros(SubSeq(s, first, first + nd - 1)), negative,
                     first + nd - 1)

\* strtol, after the white space: a sign may stand at position p
StrToLSign(s, p) ==
    IF p <= Len(s) /\ s[p] \in {"+", "-"}
    THEN StrToLDigits(s, s[p] = "-", p + 1, DigitRun(s, p + 1))
    ELSE StrToLDigits(s, FALSE, p, DigitRun(s, p))

\* strtol(s, &p_end, 10): res is the value, end the number of characters
\* before p_end, erange whether errno is ERANGE.  With no digits nothing is
\* consumed and the value is 0.  On ERANGE the value is LONG_MAX or LONG_MIN,
\* which the caller discards; it is left as 0 here.
StrToL(s) == StrToLSign(s, SpaceRun(s, 1) + 1)

\* line 588 with the test of *p_end inverted
ValToLongCheckInverted(val, r) ==
    IF r.erange \/ r.end = Len(val)
    THEN [v |-> WIMEY_ERR, err |-> TRUE]
    ELSE [v |-> r.res, err |-> FALSE]

\* wimey_val_to_long, lines 588-595, on the outcome r of strtol
ValToLongCheck(val, r) ==
    IF r.erange \/ r.end < Len(val)
    THEN [v |-> WIMEY_ERR, err |-> TRUE]
    ELSE [v |-> r.res, err |-> FALSE]

\* wimey_val_to_long: v is the value returned, err whether the conversion
\* diagnostic was reported
wimey_val_to_long(val) ==
    IF val = NULL THEN [v |-> WIMEY_ERR, err |-> TRUE]
    ELSE ValToLongCheck(val, StrToL(val))

\* a digit sequence without its trailing zeros
RECURSIVE StripTrailing(_)
StripTrailing(f) ==
    IF f # <<>> /\ f[Len(f)] = "0"
    THEN StripTrailing(SubSeq(f, 1, Len(f) - 1)) ELSE f

\* decimal digits of 2^1024 - 2^970, half a unit in the last place above
\* DBL_MAX: a decimal magnitude from there on rounds to a value that no
\* IEEE 754 double holds
DblOverflowDigits ==
    <<
       "1","7","9","7","6","9","3","1","3","4","8","6","2","3","1","5",
       "8","0","7","9","3","7","2","8","9","7","1","4","0","5","3","0",
       "3","4","1","5","0","7","9","9","3","4","1","3","2","7","1","0",
       "0","3","7","8","2","6","9","3","6","1","7","3","7","7","8","9",
       "8","0","4","4","4","9","6","8","2","9","2","7","6","4","7","5",
       "0","9","4","6","6","4","9","0","1","7","9","7","7","5","8","7",
       "2","0","7","0","9","6","3","3","0","2","8","6","4","1","6","6",
       "9","2","8","8","7","9","1","0","9","4","6","5","5","5","5","4",
       "7","8","5","1","9","4","0","4","0","2","6","3","0","6","5","7",
       "4","8","8","6","7","1","5","0","5","8","2","0","6","8","1","9",
       "0","8","9","0","2","0","0","0","7","0","8","3","8","3","6","7",
       "6","2","7","3","8","5","4","8","4","5","8","1","7","7","1","1",
       "5","3","1","7","6","4","4","7","5","7","3","0","2","7","0","0",
       "6","9","8","5","5","5","7","1","3","6","6","9","5","9","6","2",
       "2","8","4","2","9","1","4","8","1","9","8","6","0","8","3","4",
       "9","3","6","4","7","5","2","9","2","7","1","9","0","7","4","1",
       "6","8","4","4","4","3","6","5","5","1","0","7","0","4","3","4",
       "2","7","1","1","5","5","9","6","9","9","5","0","8","0","9","3",
       "0","4","2","8","8","0","1","7","7","9","0","4","1","7","4","4",
       "9","7","7","9","2"
    >>

\* the integer part ds (no leading zeros) of a magnitude overflows a double
OutOfDoubleRange(ds) ==
    \/ Len(ds) > Len(DblOverflowDigits)
    \/ Len(ds) = Len(DblOverflowDigits) /\ ~DigitsGreater(DblOverflowDigits, ds)

\* strtod, once the digits are found: ip is the integer part, fp the fraction
\* without trailing zeros.  On overflow strtod returns HUGE_VAL with the sign
\* of the input (huge) and sets errno to ERANGE.
StrToDValue(ip, fp, negative, end) ==
    IF OutOfDoubleRange(StripZeros(ip))
    THEN [n |-> IF negative THEN 0 - 1 ELSE 1, e |-> 0, end |-> end,
          huge |-> TRUE]
    ELSE [n |-> IF negative THEN 0 - DigitsValue(ip \o fp)
                ELSE DigitsValue(ip \o fp),
          e |-> Len(fp), end |-> end, huge |-> FALSE]

\* strtod, after the integer digits: ni digits from position first, then a
\* point and nf digits if hasdot
StrToDFrac(s, negative, first, ni, hasdot, nf) ==
    IF ni + nf = 0 THEN [n |-> 0, e |-> 0, end |-> 0, huge |-> FALSE]
    ELSE StrToDValue(SubSeq(s, first, first + ni - 1),
                     StripTrailing(SubSeq(s, first + ni + 1, first + ni + nf)),
                     negative,
                     first + ni - 1 + (IF hasdot THEN 1 + nf ELSE 0))

\* strtod, after the sign: the integer digits start at position first
StrToDDigits(s, negative, first, ni) ==
    IF first + ni <= Len(s) /\ s[first + ni] = "."
    THEN StrToDFrac(s, negative, first, ni, TRUE, DigitRun(s, first + ni + 1))
    ELSE StrToDFrac(s, negative, first, ni, FALSE, 0)

\* strtod, after the white space: a sign may stand at position p
StrToDSign(s, p) ==
    IF p <= Len(s) /\ s[p] \in {"+", "-"}
    THEN StrToDDigits(s, s[p] = "-", p + 1, DigitRun(s, p + 1))
    ELSE StrToDDigits(s, FALSE, p, DigitRun(s, p))

\* strtod(s, &p_end) on decimal literals: optional sign, digits, optional
\* fraction.  The value is n / 10^e with e the number of fraction digits kept
\* (no trailing zeros), or HUGE_VAL with the sign of n if huge; end is the
\* number of characters before p_end.
StrToD(s) == StrToDSign(s, SpaceRun(s, 1) + 1)

\* lines 638-640 returning -1 in place of WIMEY_ERR
ValToDoubleCheckMinusOne(r) ==
    IF r.end = 0 THEN [n |-> 0 - 1, e |-> 0, huge |-> FALSE, err |-> TRUE]
    ELSE [n |-> r.n, e |-> r.e, huge |-> r.huge, err |-> FALSE]

\* wimey_val_to_double, lines 633-640, on the outcome r of strtod: errno is
\* not looked at
ValToDoubleCheck(r) ==
    IF r.end = 0 THEN [n |-> WIMEY_ERR, e |-> 0, huge |-> FALSE, err |-> TRUE]
    ELSE [n |-> r.n, e |-> r.e, huge |-> r.huge, err |-> FALSE]

\* wimey_val_to_double
wimey_val_to_double(val) ==
    IF val = NULL THEN [n |-> WIMEY_ERR, e |-> 0, huge |-> FALSE, err |-> TRUE]
    ELSE ValToDoubleCheck(StrToD(val))

-----------------------------------------------------------------------------
(* Argument registry *)

\* help_arg, lines 96-105
help_arg ==
    [long_key |-> <<"-", "-", "h", "e", "l", "p">>, short_key |-> <<"-", "h">>,
     has_value |-> FALSE, is_value_required |-> FALSE,
     value_type |-> "WIMEY_BOOL", value_dest |-> "NULL"]

\* wimey_get_arguments_head
wimey_get_arguments_head == args_head

\* line 368 with && in place of ||
NormalizeArgumentBothFalse(argument) ==
    IF ~argument.is_value_required /\ ~argument.has_value
    THEN [argument EXCEPT !.value_type = "WIMEY_BOOL",
                          !.is_value_required = TRUE,
                          !.has_value = TRUE]
    ELSE argument

\* wimey_add_argument, lines 368-372: the descriptor as it is stored
NormalizeArgument(argument) ==
    IF ~argument.is_value_required \/ ~argument.has_value
    THEN [argument EXCEPT !.value_type = "WIMEY_BOOL",
                          !.is_value_required = TRUE,
                          !.has_value = TRUE]
    ELSE argument

\* wimey_add_argument: append the stored descriptor at the tail of the list
wimey_add_argument_list(list, argument) ==
    Append(list, NormalizeArgument(argument))

\* __wimey_get_argument_node returning the head of the list on a match
GetArgumentNodeHead(str) ==
    LET hits == {n \in 1..Len(wimey_get_arguments_head) :
                    \/ StrEq(str, wimey_get_arguments_head[n].long_key)
                    \/ StrEq(str, wimey_get_arguments_head[n].short_key)}
    IN IF hits = {} THEN 0 ELSE 1

\* __wimey_get_argument_node: position of the first node whose long or short
\* key equals str, 0 for the null pointer
__wimey_get_argument_node(str) ==
    LET hits == {n \in 1..Len(wimey_get_arguments_head) :
                    \/ StrEq(str, wimey_get_arguments_head[n].long_key)
                    \/ StrEq(str, wimey_get_arguments_head[n].short_key)}
    IN IF hits = {} THEN 0
       ELSE CHOOSE n \in hits : \A m \in hits : n <= m

\* __wimey_check_argument
__wimey_check_argument(str) == __wimey_get_argument_node(str) # 0

-----------------------------------------------------------------------------
(* Host storage behind the value_dest pointers *)

DestIds == {"count", "version", "name"}

\* a destination the parse has not written
Unset == [t |-> "unset", n |-> 0, e |-> 0, s |-> <<>>]
LongVal(n) == [t |-> "long", n |-> n, e |-> 0, s |-> <<>>]
DoubleVal(n, e) == [t |-> "double", n |-> n, e |-> e, s |-> <<>>]
\* HUGE_VAL (sign 1) or -HUGE_VAL (sign -1)
HugeVal(sign) == [t |-> "huge_val", n |-> sign, e |-> 0, s |-> <<>>]
DoubleOf(r) == IF r.huge THEN HugeVal(r.n) ELSE DoubleVal(r.n, r.e)
StrVal(s) == [t |-> "str", n |-> 0, e |-> 0, s |-> s]
IntVal(n) == [t |-> "int", n |-> n, e |-> 0, s |-> <<>>]

DestInit == [d \in DestIds |-> Unset]

\* outcomes of strdup(NULL), which is undefined: the process crashes, or the
\* call returns a null pointer
UBOutcomes == {"crash", "null"}

\* line 441 with the comparison of line 276
ArgOverflowStrict(arg_i, argc) == arg_i + 1 >= argc

\* __wimey_parse_arguments, line 441: no token follows index arg_i
ArgOverflow(arg_i, argc) == arg_i + 1 > argc

\* __wimey_parse_arguments, line 438: first index of the scan
ArgFirstIndex == 0

\* __wimey_parse_arguments, lines 469-488: the value stored for a node of the
\* given type from the token val
ArgValue(value_type, val) ==
    CASE value_type = "WIMEY_LONG" -> LongVal(wimey_val_to_long(val).v)
      [] value_type = "WIMEY_DOUBLE" -> DoubleOf(wimey_val_to_double(val))
      [] value_type = "WIMEY_STR" -> StrVal(val)
      [] value_type = "WIMEY_BOOL" -> IntVal(1)

ValueTypes == {"WIMEY_LONG", "WIMEY_DOUBLE", "WIMEY_STR", "WIMEY_BOOL"}

\* line 460 comparing with the short key of help_arg
IsHelpNodeShortKey(argument) == StrEq(argument.long_key, help_arg.short_key)

\* the help argument is recognised by its long key (line 460)
IsHelpNode(argument) == StrEq(argument.long_key, help_arg.long_key)

RECURSIVE ArgLoop(_, _, _, _)

\* __wimey_parse_arguments, lines 466-489: the value val is converted and
\* stored for the node; st2 is the state of the scan once val has been read
ArgStore(av, arg_i, st2, ub, node, val, stored) ==
    LET argument == wimey_get_arguments_head[node]
        strdup_null == argument.value_type = "WIMEY_STR" /\ val = NULL
    IN
    IF argument.value_type \notin ValueTypes
      THEN [st2 EXCEPT !.ret = WIMEY_ERR, !.end = "return"]
    ELSE IF \/ argument.value_dest = "NULL"
            \/ strdup_null /\ ub = "crash"
      THEN [st2 EXCEPT !.ret = WIMEY_ERR, !.end = "crash",
                       !.ub = @ \/ strdup_null]
    ELSE ArgLoop(av, arg_i + 1,
                 [st2 EXCEPT
                    !.writes = Append(@, [node |-> node,
                                          dest |-> argument.value_dest,
                                          at |-> arg_i,
                                          val |-> stored]),
                    !.dest[argument.value_dest] = stored,
                    !.ub = @ \/ strdup_null],
                 ub)

\* __wimey_parse_arguments, lines 446-490: the body of the for loop at a
\* token that is a registered key; node is its node, overflow as on line 441
\* and st1 the state of the scan once the token has been read
ArgMatch(av, arg_i, st1, ub, node, overflow) ==
    LET argument == wimey_get_arguments_head[node]
    IN
    IF /\ argument.is_value_required
       /\ argument.value_type # "WIMEY_BOOL"
       /\ overflow
      THEN [st1 EXCEPT !.ret = WIMEY_ERR, !.end = "return"]
    ELSE IF argument.has_value /\ ~overflow
      THEN IF IsHelpNode(argument)
           THEN [st1 EXCEPT !.ret = WIMEY_OK, !.end = "exit"]
           ELSE ArgStore(av, arg_i,
                         [st1 EXCEPT !.reads = @ \cup {arg_i + 1}], ub, node,
                         ArgvAt(av, arg_i + 1),
                         ArgValue(argument.value_type, ArgvAt(av, arg_i + 1)))
    ELSE ArgLoop(av, arg_i + 1, st1, ub)

\* the scan reads and examines the token at index arg_i
ArgSeen(st, arg_i) ==
    [st EXCEPT !.reads = @ \cup {arg_i}, !.scan = @ \cup {arg_i}, !.at = arg_i]

\* __wimey_parse_arguments, lines 438-491: the for loop from index arg_i on;
\* st holds the writes, the indices read, the indices examined and the
\* storage so far, and whether the undefined strdup(NULL) has been reached;
\* ub is the outcome of that call.  end tells how the scan ended: it
\* returned, called exit(EXIT_SUCCESS), or the process crashed.
ArgLoop(av, arg_i, st, ub) ==
    IF ~(arg_i < Len(av))
    THEN [st EXCEPT !.ret = WIMEY_OK, !.end = "return", !.at = arg_i]
    ELSE IF ~__wimey_check_argument(ArgvAt(av, arg_i))
    THEN ArgLoop(av, arg_i + 1, ArgSeen(st, arg_i), ub)
    ELSE ArgMatch(av, arg_i, ArgSeen(st, arg_i), ub,
                  __wimey_get_argument_node(ArgvAt(av, arg_i)),
                  ArgOverflow(arg_i, Len(av)))

\* state of the argument scan on entry
ArgScanInit ==
    [ret |-> WIMEY_OK, end |-> "return", at |-> 0, writes |-> <<>>,
     reads |-> {}, scan |-> {}, dest |-> DestInit, ub |-> FALSE]

\* __wimey_parse_arguments
__wimey_parse_arguments(av, ub) ==
    IF wimey_get_arguments_head = <<>>
    THEN ArgScanInit
    ELSE ArgLoop(av, ArgFirstIndex, ArgScanInit, ub)

-----------------------------------------------------------------------------
(* Operations of the library *)

\* what is observed of the most recent wimey_parse call
obs == <<pc, argv, cmds_parse, args_parse, result, calls, writes, creads,
         areads, cscan, ascan, cmds_at, args_at, exit_code, dest, conv,
         ref>>

\* no converter has been called
ConvNone == [done |-> FALSE, val |-> NULL, v |-> 0, err |-> FALSE]

Init ==
    /\ cmds_head = <<>>
    /\ args_head = <<>>
    /\ pc = "ready"
    /\ argv = <<>>
    /\ cmds_parse = NONE
    /\ args_parse = NONE
    /\ result = NONE
    /\ calls = <<>>
    /\ writes = <<>>
    /\ creads = {}
    /\ areads = {}
    /\ cscan = {}
    /\ ascan = {}
    /\ cmds_at = NONE
    /\ args_at = NONE
    /\ exit_code = NONE
    /\ dest = DestInit
    /\ cmds_added = <<>>
    /\ args_added = <<>>
    /\ last_op = [op |-> "none", cmds |-> 0, args |-> 0]
    /\ conv = ConvNone
    /\ ref = [done |-> FALSE]

\* the library call op is made
Op(op) == [op |-> op, cmds |-> Len(cmds_head), args |-> Len(args_head)]

\* wimey_init
wimey_init ==
    /\ pc = "ready"
    /\ cmds_head' = <<>>
    /\ args_head' = <<>>
    /\ cmds_added' = <<>>
    /\ args_added' = <<>>
    /\ last_op' = Op("wimey_init")
    /\ UNCHANGED obs

\* wimey_add_command
wimey_add_command(cmd) ==
    /\ pc = "ready"
    /\ Len(cmds_head) < MaxCmds
    /\ cmds_head' = wimey_add_command_list(cmds_head, cmd)
    /\ cmds_added' = Append(cmds_added, cmd)
    /\ last_op' = Op("wimey_add_command")
    /\ UNCHANGED <<args_head, args_added, obs>>

\* wimey_add_argument
wimey_add_argument(argument) ==
    /\ pc = "ready"
    /\ Len(args_head) < MaxArgs
    /\ args_head' = wimey_add_argument_list(args_head, argument)
    /\ args_added' = Append(args_added, argument)
    /\ last_op' = Op("wimey_add_argument")
    /\ UNCHANGED <<cmds_head, cmds_added, obs>>

\* wimey_add_command when malloc fails in wimey_create_command_node (lines
\* 182-185): WIMEY_ERR is returned and the list is left alone
wimey_add_command_nomem(cmd) ==
    /\ pc = "ready"
    /\ last_op' = Op("wimey_add_command")
    /\ UNCHANGED <<cmds_head, args_head, cmds_added, args_added, obs>>

\* wimey_add_argument when malloc fails in wimey_create_argument_node (lines
\* 377-380)
wimey_add_argument_nomem(argument) ==
    /\ pc = "ready"
    /\ last_op' = Op("wimey_add_argument")
    /\ UNCHANGED <<cmds_head, args_head, cmds_added, args_added, obs>>

\* wimey_generate_help
wimey_generate_help == wimey_add_argument(help_arg)

\* wimey_free_all without the loop over the argument list (lines 704-713)
FreeAllCommandsOnly ==
    /\ pc = "ready"
    /\ cmds_head' = <<>>
    /\ args_head' = args_head
    /\ cmds_added' = <<>>
    /\ args_added' = <<>>
    /\ last_op' = Op("wimey_free_all")
    /\ UNCHANGED obs

\* wimey_free_all
wimey_free_all ==
    /\ pc = "ready"
    /\ cmds_head' = <<>>
    /\ args_head' = <<>>
    /\ cmds_added' = <<>>
    /\ args_added' = <<>>
    /\ last_op' = Op("wimey_free_all")
    /\ UNCHANGED obs

\* line 684 returning args_parse alone
ParseStatusArgsOnly(c, a) == IF a # 0 THEN 1 ELSE 0

\* wimey_parse, line 684: cmds_parse && args_parse
ParseStatus(c, a) == IF c # 0 /\ a # 0 THEN 1 ELSE 0

\* what wimey_parse leaves: c is the outcome of the command scan and a the
\* outcome of the argument scan
ParseOutcome(av, c, a) ==
    /\ argv' = av
    /\ conv' = conv
    /\ ref' = ref
    /\ cmds_parse' = c.ret
    /\ calls' = c.calls
    /\ creads' = c.reads
    /\ cscan' = c.scan
    /\ cmds_at' = c.at
    /\ writes' = a.writes
    /\ areads' = a.reads
    /\ ascan' = a.scan
    /\ args_at' = a.at
    /\ exit_code' = IF a.end = "exit" THEN EXIT_SUCCESS ELSE NONE
    /\ dest' = a.dest
    /\ pc' = CASE a.end = "return" -> "parsed"
               [] a.end = "exit" -> "exited"
               [] a.end = "crash" -> "crashed"
    /\ args_parse' = IF a.end = "return" THEN a.ret ELSE NONE
    /\ result' = IF a.end = "return" THEN ParseStatus(c.ret, a.ret) ELSE NONE

\* the outcomes the undefined strdup(NULL) may have, where the argument scan
\* of av reaches it
UBChoices(av) ==
    IF __wimey_parse_arguments(av, "null").ub THEN UBOutcomes ELSE {"null"}

\* wimey_parse on the token vector av: the command scan, then the argument
\* scan, then the return of the combined status, unless the argument scan
\* ends the process
wimey_parse(av) ==
    /\ pc = "ready"
    /\ \E ub \in UBChoices(av) :
          ParseOutcome(av, __wimey_parse_commands(av),
                       __wimey_parse_arguments(av, ub))
    /\ last_op' = Op("wimey_parse")
    /\ UNCHANGED <<cmds_head, args_head, cmds_added, args_added>>

\* the host goes on after wimey_parse has returned (example.c, lines 182-192):
\* what was observed of the call is forgotten
host_continue ==
    /\ pc = "parsed"
    /\ pc' = "ready"
    /\ argv' = <<>>
    /\ cmds_parse' = NONE
    /\ args_parse' = NONE
    /\ result' = NONE
    /\ calls' = <<>>
    /\ writes' = <<>>
    /\ creads' = {}
    /\ areads' = {}
    /\ cscan' = {}
    /\ ascan' = {}
    /\ cmds_at' = NONE
    /\ args_at' = NONE
    /\ exit_code' = NONE
    /\ dest' = DestInit
    /\ UNCHANGED <<cmds_head, args_head, cmds_added, args_added, last_op,
                   conv, ref>>

\* the host goes on after wimey_parse has returned and keeps what the call
\* did, to compare a later call with it
host_remember ==
    /\ pc = "parsed"
    /\ ref' = [done |-> TRUE, argv |-> argv, cmds_head |-> cmds_head,
               args_head |-> args_head, calls |-> calls,
               cmds_parse |-> cmds_parse, writes |-> writes,
               args_parse |-> args_parse, dest |-> dest]
    /\ pc' = "ready"
    /\ argv' = <<>>
    /\ cmds_parse' = NONE
    /\ args_parse' = NONE
    /\ result' = NONE
    /\ calls' = <<>>
    /\ writes' = <<>>
    /\ creads' = {}
    /\ areads' = {}
    /\ cscan' = {}
    /\ ascan' = {}
    /\ cmds_at' = NONE
    /\ args_at' = NONE
    /\ exit_code' = NONE
    /\ dest' = DestInit
    /\ UNCHANGED <<cmds_head, args_head, cmds_added, args_added, last_op,
                   conv>>

\* the host calls wimey_val_to_long on val itself, as the callbacks of
\* example.c call the converters (line 89)
host_val_to_long(val) ==
    /\ pc = "ready"
    /\ conv' = [done |-> TRUE, val |-> val,
                v |-> wimey_val_to_long(val).v,
                err |-> wimey_val_to_long(val).err]
    /\ UNCHANGED <<cmds_head, args_head, pc, argv, cmds_parse, args_parse,
                   result, calls, writes, creads, areads, cscan, ascan,
                   cmds_at, args_at, exit_code, dest, cmds_added, args_added,
                   last_op, ref>>

-----------------------------------------------------------------------------
(* Inputs *)

\* all token vectors of 1 .. n tokens over the token set T
Vectors(T, n) == UNION {[1..k -> T] : k \in 1..n}

tok_prog == <<"p">>
tok_a == <<"a">>
tok_bc == <<"b", "c">>
tok_b == <<"b">>
tok_ab == <<"a", "b">>
tok_count == <<"-", "-", "c">>
tok_c == <<"-", "c">>
tok_version == <<"-", "-", "v">>
tok_v == <<"-", "v">>
tok_name == <<"-", "-", "n">>
tok_n == <<"-", "n">>
tok_5 == <<"5">>
tok_m07 == <<"-", "0", "7">>

cmd(key, has_value, is_value_required, callback) ==
    [key |-> key, has_value |-> has_value,
     is_value_required |-> is_value_required, callback |-> callback]

arg(long_key, short_key, has_value, is_value_required, value_type, value_dest) ==
    [long_key |-> long_key, short_key |-> short_key, has_value |-> has_value,
     is_value_required |-> is_value_required, value_type |-> value_type,
     value_dest |-> value_dest]

\* command descriptors the host registers: a command with a required value
\* (as cmd1 of example.c), one without a value, and two on a longer key
CmdDescriptors ==
    { cmd(tok_a, TRUE, TRUE, "command_a"),
      cmd(tok_a, FALSE, FALSE, "command_a0"),
      cmd(tok_bc, TRUE, FALSE, "command_bc"),
      cmd(tok_bc, TRUE, TRUE, "command_bc1") }

\* argument descriptors the host registers: arg2 and arg1 of example.c, and
\* a string argument
ArgDescriptors ==
    { arg(tok_count, tok_c, TRUE, TRUE, "WIMEY_LONG", "count"),
      arg(tok_version, tok_v, FALSE, FALSE, "WIMEY_BOOL", "version"),
      arg(tok_name, tok_n, TRUE, TRUE, "WIMEY_STR", "name") }

CmdTokens == {tok_prog, tok_a, tok_bc, tok_b, tok_ab}
ArgTokens == {tok_prog, tok_count, tok_c, tok_v, tok_n, tok_m07,
              help_arg.short_key}
MixCmdDescriptors == {cmd(tok_a, TRUE, TRUE, "command_a")}
MixArgDescriptors ==
    { arg(tok_count, tok_c, TRUE, TRUE, "WIMEY_LONG", "count"),
      arg(tok_count, tok_c, TRUE, TRUE, "WIMEY_UNKNOWN", "count") }
MixTokens == {tok_prog, tok_a, tok_c, tok_5, help_arg.short_key}

\* descriptors for the registry: the two commands of the host, its two
\* arguments, and arguments supplied with each other combination of the two
\* flags and a type that is not boolean
RegCmdDescriptors ==
    { cmd(tok_a, TRUE, TRUE, "command_a"),
      cmd(tok_bc, TRUE, TRUE, "command_bc1") }
RegArgDescriptors ==
    { arg(tok_version, tok_v, FALSE, FALSE, "WIMEY_BOOL", "version"),
      arg(tok_count, tok_c, TRUE, TRUE, "WIMEY_LONG", "count"),
      arg(tok_count, tok_c, FALSE, FALSE, "WIMEY_LONG", "count"),
      arg(tok_name, tok_n, TRUE, FALSE, "WIMEY_STR", "name"),
      arg(tok_name, tok_n, FALSE, TRUE, "WIMEY_DOUBLE", "name") }
RegVectors ==
    { <<tok_prog>>,
      <<tok_prog, tok_a, tok_b>>,
      <<tok_prog, tok_c, tok_5>>,
      <<tok_prog, tok_v, tok_bc, tok_a>> }

\* registrations and vectors for two parses of the same vector: in the
\* vectors a command's value is an argument key and an argument's value a
\* command key
PairArgDescriptors == {arg(tok_count, tok_c, TRUE, TRUE, "WIMEY_LONG", "count")}
PairVectors ==
    { <<tok_prog, tok_a, tok_5>>,
      <<tok_prog, tok_a, tok_c, tok_5>>,
      <<tok_prog, tok_c, tok_a, tok_5>>,
      <<tok_prog, tok_a, tok_5, help_arg.short_key>> }

\* all strings of at most n characters over the characters of C
RECURSIVE Strings(_, _)
Strings(C, n) ==
    IF n = 0 THEN {<<>>}
    ELSE Strings(C, n - 1)
            \cup {Append(t, c) : t \in Strings(C, n - 1), c \in C}

\* inputs of the converters: the null pointer, the short strings over a few
\* characters, and two numerals that do not fit a long: LONG_MAX + 1 and
\* twenty-one nines
ConvChars == {"4", "2", "0", "x", "-", " "}
tok_long_max_plus_1 == LongMinDigits
tok_nines == [k \in 1..21 |-> "9"]
ConvInputs ==
    Strings(ConvChars, MaxConvLen)
        \cup {NULL, tok_long_max_plus_1, tok_nines}

\* registrations and vectors for values that do not convert: an integer and
\* a floating-point argument, each followed by a token that is not a number
\* (x), one with trailing characters (5x), and a numeral out of the range of
\* its type (twenty-one nines for a long, 10^309 for a double); the same with
\* a further argument behind, and with the empty string or a registered key
\* in the place of the value.  The vectors of fewer than two tokens are here
\* too: none, a program name, and a registered key as the only token; the
\* commands are one with a required value and one without a value.
tok_x == <<"x">>
tok_5x == <<"5", "x">>
tok_1_5 == <<"1", ".", "5">>
tok_1e309 == [k \in 1..310 |-> IF k = 1 THEN "1" ELSE "0"]
ValArgDescriptors ==
    { arg(tok_count, tok_c, TRUE, TRUE, "WIMEY_LONG", "count"),
      arg(tok_version, tok_v, TRUE, TRUE, "WIMEY_DOUBLE", "version") }
ValCmdDescriptors ==
    { cmd(tok_a, TRUE, TRUE, "command_a"),
      cmd(tok_a, FALSE, FALSE, "command_a0") }
ValVectors ==
    { <<>>,
      <<tok_prog>>,
      <<tok_a>>,
      <<tok_c>>,
      <<help_arg.short_key>>,
      <<tok_prog, tok_c, tok_5>>,
      <<tok_prog, tok_c, tok_x>>,
      <<tok_prog, tok_count, tok_5x>>,
      <<tok_prog, tok_c, tok_nines>>,
      <<tok_prog, tok_v, tok_1_5>>,
      <<tok_prog, tok_version, tok_x>>,
      <<tok_prog, tok_v, tok_5x>>,
      <<tok_prog, tok_v, tok_1e309>>,
      <<tok_prog, tok_c, tok_x, tok_v, tok_1_5>>,
      <<tok_prog, tok_a, tok_5, tok_v, tok_x, tok_c, tok_5>>,
      <<tok_prog, tok_c, <<>>>>,
      <<tok_prog, tok_c, tok_a>>,
      <<tok_prog, tok_c, help_arg.short_key>> }

\* registrations and vectors for keys registered twice: three commands on
\* the key a, and arguments that share the long key, the short key, or
\* neither with the integer argument of the host
DupCmdDescriptors ==
    { cmd(tok_a, TRUE, TRUE, "command_a"),
      cmd(tok_a, TRUE, FALSE, "command_a1"),
      cmd(tok_a, FALSE, FALSE, "command_a0") }
DupArgDescriptors ==
    { arg(tok_count, tok_c, TRUE, TRUE, "WIMEY_LONG", "count"),
      arg(tok_count, tok_n, TRUE, TRUE, "WIMEY_LONG", "name"),
      arg(tok_version, tok_c, TRUE, TRUE, "WIMEY_LONG", "version") }
DupVectors ==
    { <<tok_prog, tok_a, tok_5>>,
      <<tok_prog, tok_count, tok_5>>,
      <<tok_prog, tok_c, tok_5>>,
      <<tok_prog, tok_n, tok_5>>,
      <<tok_prog, tok_version, tok_5>>,
      <<tok_prog, tok_a, tok_5, tok_c, tok_5, tok_n, tok_5>> }

\* the token vectors the host passes: argc is at least 1
CmdVectors == Vectors(CmdTokens, MaxArgc)
ArgVectors == Vectors(ArgTokens, MaxArgc)
\* in the mixed universe argv[0] is the name the program was started under
MixVectors == {av \in Vectors(MixTokens, MaxMixArgc) : av[1] = tok_prog}

-----------------------------------------------------------------------------
(* Specifications *)

\* commands, arguments and the help argument together
Next ==
    \/ wimey_init
    \/ \E c \in MixCmdDescriptors : wimey_add_command(c)
    \/ \E a \in MixArgDescriptors : wimey_add_argument(a)
    \/ wimey_generate_help
    \/ wimey_free_all
    \/ \E av \in MixVectors : wimey_parse(av)
    \/ host_continue

Spec == Init /\ [][Next]_vars

\* the command scan over all the command descriptors
NextCmds ==
    \/ wimey_init
    \/ \E c \in CmdDescriptors : wimey_add_command(c)
    \/ wimey_free_all
    \/ \E av \in CmdVectors : wimey_parse(av)
    \/ host_continue

SpecCmds == Init /\ [][NextCmds]_vars

\* the argument scan over all the argument descriptors
NextArgs ==
    \/ wimey_init
    \/ \E a \in ArgDescriptors : wimey_add_argument(a)
    \/ wimey_generate_help
    \/ wimey_free_all
    \/ \E av \in ArgVectors : wimey_parse(av)
    \/ host_continue

SpecArgs == Init /\ [][NextArgs]_vars

\* the registry: registrations that succeed or fail, teardown, and parses
\* of a few vectors
NextReg ==
    \/ wimey_init
    \/ \E c \in RegCmdDescriptors : wimey_add_command(c)
    \/ \E c \in RegCmdDescriptors : wimey_add_command_nomem(c)
    \/ \E a \in RegArgDescriptors : wimey_add_argument(a)
    \/ \E a \in RegArgDescriptors : wimey_add_argument_nomem(a)
    \/ wimey_generate_help
    \/ wimey_free_all
    \/ \E av \in RegVectors : wimey_parse(av)
    \/ host_continue

SpecReg == Init /\ [][NextReg]_vars

\* two parses of the same vector with different registrations
NextPair ==
    \/ \E c \in MixCmdDescriptors : wimey_add_command(c)
    \/ \E a \in PairArgDescriptors : wimey_add_argument(a)
    \/ wimey_generate_help
    \/ wimey_free_all
    \/ \E av \in PairVectors : wimey_parse(av)
    \/ host_remember

SpecPair == Init /\ [][NextPair]_vars

\* the converters called on their own
NextConv == \E val \in ConvInputs : host_val_to_long(val)

SpecConv == Init /\ [][NextConv]_vars

\* values that do not convert and vectors of fewer than two tokens, with and
\* without commands and help
NextVal ==
    \/ wimey_init
    \/ \E c \in ValCmdDescriptors : wimey_add_command(c)
    \/ \E a \in ValArgDescriptors : wimey_add_argument(a)
    \/ wimey_generate_help
    \/ wimey_free_all
    \/ \E av \in ValVectors : wimey_parse(av)
    \/ host_continue

SpecVal == Init /\ [][NextVal]_vars

\* keys registered twice
NextDup ==
    \/ wimey_init
    \/ \E c \in DupCmdDescriptors : wimey_add_command(c)
    \/ \E a \in DupArgDescriptors : wimey_add_argument(a)
    \/ wimey_free_all
    \/ \E av \in DupVectors : wimey_parse(av)
    \/ host_continue

SpecDup == Init /\ [][NextDup]_vars

-----------------------------------------------------------------------------
(* Vocabulary of the properties *)

\* a wimey_parse call has been made and what it did is observed
Ran == pc \in {"parsed", "exited", "crashed"}

argc == Len(argv)

\* argv[k] of the observed call
Tok(k) == argv[k + 1]

\* a is a prefix of b
IsPrefix(a, b) == Len(a) <= Len(b) /\ \A k \in 1..Len(a) : a[k] = b[k]

CmdNodes == 1..Len(cmds_head)
ArgNodes == 1..Len(args_head)

CmdKeys == {cmds_head[n].key : n \in CmdNodes}
ArgKeys == {args_head[n].long_key : n \in ArgNodes}
              \cup {args_head[n].short_key : n \in ArgNodes}

\* node n is the first registered command with its key
CmdResolves(n) == \A m \in 1..(n - 1) : cmds_head[m].key # cmds_head[n].key

\* the token t is a key of the argument node n and of no earlier node
ArgResolves(t, n) ==
    /\ t \in {args_head[n].long_key, args_head[n].short_key}
    /\ \A m \in 1..(n - 1) :
          t \notin {args_head[m].long_key, args_head[m].short_key}

\* some registered command key is a literal prefix of the token t
StartsWithKey(t) == \E n \in CmdNodes : IsPrefix(cmds_head[n].key, t)

\* argv[0] is a program name: it is not a registered key
ProgIsPlain == argc >= 1 /\ Tok(0) \notin CmdKeys \cup ArgKeys

\* the callback invocations of node n, as positions in calls
CallsOf(n) == {k \in 1..Len(calls) : calls[k].node = n}

\* the callback of node n was invoked with value v for the token at index i
Called(n, v, i) ==
    \E k \in 1..Len(calls) : calls[k] = [node |-> n, value |-> v, at |-> i]

-----------------------------------------------------------------------------
(* Properties *)

\* C1: for every registered command C with has_value = false and
\* is_value_required = false, wimey_parse on [prog, C.key], prog not a
\* registered key, invokes C's callback exactly once, with NULL.
C1_NoValueCommandInvokedOnce ==
    \A n \in CmdNodes :
        ( /\ Ran
          /\ CmdResolves(n)
          /\ ~cmds_head[n].has_value
          /\ ~cmds_head[n].is_value_required
          /\ argc = 2
          /\ ProgIsPlain
          /\ Tok(1) = cmds_head[n].key )
        => /\ Cardinality(CallsOf(n)) = 1
           /\ Called(n, NULL, 1)

\* C2: for every registered command C with has_value = true and
\* is_value_required = true and every token v that starts with no registered
\* command key, wimey_parse on [prog, C.key, v] (prog a program name) invokes
\* C's callback exactly once, with v, and the scan resumes after v: v is not
\* examined as a command.
C2_RequiredValuePassed ==
    \A n \in CmdNodes :
        ( /\ Ran
          /\ CmdResolves(n)
          /\ cmds_head[n].has_value
          /\ cmds_head[n].is_value_required
          /\ argc = 3
          /\ ProgIsPlain
          /\ Tok(1) = cmds_head[n].key
          /\ ~StartsWithKey(Tok(2)) )
        => /\ Cardinality(CallsOf(n)) = 1
           /\ Called(n, Tok(2), 1)
           /\ 2 \notin cscan
           /\ cmds_at = 3

C2_Witness ==
    \E n \in CmdNodes :
        /\ pc = "parsed"
        /\ CmdResolves(n)
        /\ cmds_head[n].has_value
        /\ cmds_head[n].is_value_required
        /\ Len(cmds_head) = 2
        /\ argc = 3
        /\ ProgIsPlain
        /\ Tok(1) = cmds_head[n].key
        /\ Tok(2) = tok_b
        /\ Called(n, tok_b, 1)

\* C3: for every registered command C with has_value = true and
\* is_value_required = true, wimey_parse on [prog, C.key] (prog a program
\* name) returns WIMEY_ERR and never invokes C's callback.
C3_MissingRequiredValueFails ==
    \A n \in CmdNodes :
        ( /\ Ran
          /\ CmdResolves(n)
          /\ cmds_head[n].has_value
          /\ cmds_head[n].is_value_required
          /\ argc = 2
          /\ ProgIsPlain
          /\ Tok(1) = cmds_head[n].key )
        => /\ pc = "parsed"
           /\ result = WIMEY_ERR
           /\ cmds_parse = WIMEY_ERR
           /\ CallsOf(n) = {}

C3_Witness ==
    \E n \in CmdNodes :
        /\ pc = "parsed"
        /\ args_head # <<>>
        /\ cmds_head[n].has_value
        /\ cmds_head[n].is_value_required
        /\ argc = 2
        /\ ProgIsPlain
        /\ Tok(1) = cmds_head[n].key
        /\ result = WIMEY_ERR

\* C4: in the argument scan, a token equal to the long or short key of a
\* registered argument that requires a non-boolean value and is the last
\* token of the vector aborts the scan, and wimey_parse returns failure.
C4_MissingArgumentValueFails ==
    \A n \in ArgNodes :
        ( /\ Ran
          /\ argc = 2
          /\ ProgIsPlain
          /\ ArgResolves(Tok(1), n)
          /\ args_head[n].is_value_required
          /\ args_head[n].value_type # "WIMEY_BOOL" )
        => /\ pc = "parsed"
           /\ args_parse = WIMEY_ERR
           /\ result = WIMEY_ERR

\* C5: the command scanner never treats argv[0] as a command: no callback is
\* invoked for the token at index 0, whatever it is.
C5_Argv0NeverACommand ==
    Ran => \A k \in 1..Len(calls) : calls[k].at >= 1

\* C6: when argv[i] is the key of a value-accepting command C and argv[i+1]
\* starts with some registered command key, C's callback is invoked with NULL
\* and argv[i+1] is not skipped: it is examined at the next scan position,
\* where a callback fires only if it equals a registered key.
C6_LookaheadCommandNotConsumed ==
    \A n \in CmdNodes : \A i \in 0..(argc - 2) :
        ( /\ Ran
          /\ CmdResolves(n)
          /\ cmds_head[n].has_value
          /\ Tok(i) = cmds_head[n].key
          /\ StartsWithKey(Tok(i + 1)) )
        => /\ Called(n, NULL, i)
           /\ Cardinality({k \in 1..Len(calls) : calls[k].at = i}) = 1
           /\ (i + 1) \in cscan
           /\ (\E k \in 1..Len(calls) : calls[k].at = i + 1)
                 => Tok(i + 1) \in CmdKeys

C6_Witness ==
    \E n \in CmdNodes :
        /\ pc = "parsed"
        /\ CmdResolves(n)
        /\ cmds_head[n].has_value
        /\ argc = 3
        /\ ProgIsPlain
        /\ Tok(1) = cmds_head[n].key
        /\ Tok(2) = tok_ab
        /\ Tok(2) \notin CmdKeys
        /\ StartsWithKey(Tok(2))
        /\ Called(n, NULL, 1)
        /\ 2 \in cscan

\* C7, as stated: if the token v following C.key is a prefix of some other
\* registered command's key, C's callback fires with NULL and v is examined at
\* the next position instead of being passed to C.
C7_PrefixOfKeyNotConsumed ==
    \A n \in CmdNodes : \A m \in CmdNodes : \A i \in 0..(argc - 2) :
        ( /\ Ran
          /\ ProgIsPlain
          /\ CmdResolves(n)
          /\ cmds_head[n].has_value
          /\ Tok(i) = cmds_head[n].key
          /\ m # n
          /\ IsPrefix(Tok(i + 1), cmds_head[m].key) )
        => /\ Called(n, NULL, i)
           /\ (i + 1) \in cscan

\* C7, amended: the lookahead asks whether a registered key is a prefix of v,
\* not whether v is a prefix of a key.  If v starts with a registered key, C's
\* callback fires with NULL and v is examined at the next position; if v is
\* only a prefix of another command's key and starts with no registered key,
\* v is passed to C as its value and is skipped.
C7_KeyPrefixOfTokenNotConsumed ==
    \A n \in CmdNodes : \A i \in 0..(argc - 2) :
        ( /\ Ran
          /\ CmdResolves(n)
          /\ cmds_head[n].has_value
          /\ Tok(i) = cmds_head[n].key )
        => /\ StartsWithKey(Tok(i + 1))
                => Called(n, NULL, i) /\ (i + 1) \in cscan
           /\ ( /\ ~StartsWithKey(Tok(i + 1))
                /\ \E m \in CmdNodes :
                      m # n /\ IsPrefix(Tok(i + 1), cmds_head[m].key) )
                => Called(n, Tok(i + 1), i) /\ (i + 1) \notin cscan

C7_Witness ==
    \E n \in CmdNodes : \E m \in CmdNodes :
        /\ pc = "parsed"
        /\ CmdResolves(n)
        /\ cmds_head[n].has_value
        /\ argc = 3
        /\ ProgIsPlain
        /\ Tok(1) = cmds_head[n].key
        /\ m # n
        /\ IsPrefix(Tok(2), cmds_head[m].key)
        /\ ~StartsWithKey(Tok(2))
        /\ Called(n, Tok(2), 1)

\* the token t resolves to an argument node whose long key is that of help_arg
IsHelpToken(t) ==
    \E n \in ArgNodes :
        ArgResolves(t, n) /\ args_head[n].long_key = help_arg.long_key

\* the token t resolves to an argument node whose value type is none of the
\* enumeration: the scan reports "Failed to resolve argument type" there
IsUntypedToken(t) ==
    \E n \in ArgNodes :
        /\ ArgResolves(t, n)
        /\ args_head[n].long_key # help_arg.long_key
        /\ args_head[n].value_type \notin ValueTypes

\* the argument scan reaches index i: no earlier token ends it
ArgScanReaches(i) ==
    /\ i \in 0..(argc - 1)
    /\ \A j \in 0..(i - 1) : ~IsHelpToken(Tok(j)) /\ ~IsUntypedToken(Tok(j))

\* C8, as stated: matching --help or -h at index i ends the process with a
\* success status before any token at an index greater than i is examined: no
\* destination is written and no callback is invoked for a later token.
C8_NothingAfterHelp ==
    \A i \in 0..(argc - 1) :
        (Ran /\ ProgIsPlain /\ ArgScanReaches(i) /\ IsHelpToken(Tok(i)))
        => /\ pc = "exited"
           /\ exit_code = EXIT_SUCCESS
           /\ \A k \in 1..Len(writes) : writes[k].at < i
           /\ \A k \in 1..Len(calls) : calls[k].at < i

\* C8, amended: the help flag is matched by the argument scan, which runs
\* after the command scan has gone through the whole vector.  When the
\* argument scan matches --help or -h at index i the process ends with a
\* success status before the argument scan examines any token at an index
\* greater than i, and no destination is written for a later token.  The
\* callbacks of commands placed after the help flag have been invoked by
\* then: the command scan has examined every index it does not consume as a
\* value, up to the end of the vector or to its own failure.
C8_NoArgumentAfterHelp ==
    \A i \in 0..(argc - 1) :
        (Ran /\ ArgScanReaches(i) /\ IsHelpToken(Tok(i)))
        => /\ pc = "exited"
           /\ exit_code = EXIT_SUCCESS
           /\ args_at = i
           /\ \A k \in 1..Len(writes) : writes[k].at < i
           /\ \A j \in areads \cup ascan : j <= i
           /\ \A j \in (i + 1)..(argc - 1) :
                 (cmds_parse = WIMEY_OK /\ Tok(j) \in CmdKeys /\ j \in cscan)
                 => \E k \in 1..Len(calls) : calls[k].at = j
           /\ (cmds_head # <<>> /\ cmds_parse = WIMEY_OK) => cmds_at = argc

C8_Witness ==
    /\ pc = "exited"
    /\ exit_code = EXIT_SUCCESS
    /\ ProgIsPlain
    /\ argc = 4
    /\ ArgScanReaches(1)
    /\ IsHelpToken(Tok(1))
    /\ Tok(2) \in CmdKeys
    /\ \E k \in 1..Len(calls) : calls[k].at = 2 /\ calls[k].value = Tok(3)
    /\ cmds_parse = WIMEY_OK
    /\ writes = <<>>

\* C9: wimey_parse runs the command scan and then the argument scan over the
\* same token vector and returns success if and only if both succeeded; when
\* the command scan fails the argument scan still runs and writes the
\* destination of every matching argument it reaches (the help path, which
\* ends the process, apart).
C9_BothScansRun ==
    pc = "parsed"
    => /\ result = (IF cmds_parse = WIMEY_OK /\ args_parse = WIMEY_OK
                    THEN WIMEY_OK ELSE WIMEY_ERR)
       /\ \A i \in 0..(argc - 1) :
             (ArgScanReaches(i) /\ args_head # <<>>)
             => /\ i \in ascan
                /\ (Tok(i) \in ArgKeys /\ ~IsUntypedToken(Tok(i)))
                      => \E k \in 1..Len(writes) : writes[k].at = i
       /\ args_parse = WIMEY_ERR
             <=> \E i \in 0..(argc - 1) :
                    ArgScanReaches(i) /\ IsUntypedToken(Tok(i))

C9_Witness ==
    /\ pc = "parsed"
    /\ cmds_parse = WIMEY_ERR
    /\ args_parse = WIMEY_OK
    /\ result = WIMEY_ERR
    /\ ProgIsPlain
    /\ \E k \in 1..Len(writes) :
          writes[k].at >= 1 /\ dest[writes[k].dest] = LongVal(5)

\* a decimal integer: an optional sign and one to eighteen digits, so that
\* its value fits a long
IsDecimal(t) ==
    \/ /\ Len(t) \in 1..18
       /\ \A k \in 1..Len(t) : IsDigit(t[k])
    \/ /\ Len(t) \in 2..19
       /\ t[1] \in {"+", "-"}
       /\ \A k \in 2..Len(t) : IsDigit(t[k])

\* the value of a decimal integer
DecimalValue(t) ==
    IF t[1] = "-" THEN 0 - DigitsValue(Tail(t))
    ELSE IF t[1] = "+" THEN DigitsValue(Tail(t))
    ELSE DigitsValue(t)

\* C10: for every registered argument A with has_value = true,
\* is_value_required = true and integer type, and every token n that is a
\* base-10 integer in range, wimey_parse on [prog, A.long_key, n] or
\* [prog, A.short_key, n] (prog a program name) returns success and leaves
\* A's destination equal to the value of n.  n is a value, not itself a
\* registered key: the argument scan looks at the value token again as a key.
C10_IntegerArgumentStored ==
    \A n \in ArgNodes :
        ( /\ Ran
          /\ argc = 3
          /\ ProgIsPlain
          /\ ArgResolves(Tok(1), n)
          /\ args_head[n].has_value
          /\ args_head[n].is_value_required
          /\ args_head[n].value_type = "WIMEY_LONG"
          /\ IsDecimal(Tok(2))
          /\ Tok(2) \notin ArgKeys )
        => /\ pc = "parsed"
           /\ result = WIMEY_OK
           /\ dest[args_head[n].value_dest] = LongVal(DecimalValue(Tok(2)))

C10_Witness ==
    \E n \in ArgNodes :
        /\ pc = "parsed"
        /\ argc = 3
        /\ ProgIsPlain
        /\ Tok(1) = args_head[n].short_key
        /\ args_head[n].value_type = "WIMEY_LONG"
        /\ Tok(2) = tok_m07
        /\ dest[args_head[n].value_dest] = LongVal(0 - 7)
        /\ Len(args_head) = 2

\* C11: for every argument registered as value-less (stored as a boolean
\* flag by the registration) other than the help argument, a token equal to
\* its long or short key that the argument scan reaches sets its destination
\* to true and consumes no further token: the token right after it is
\* examined by the argument scan, and a value-less argument as the last token
\* is not an error.
C11_FlagSetsTrueConsumesNothing ==
    \A n \in ArgNodes : \A i \in 0..(argc - 1) :
        ( /\ Ran
          /\ ArgScanReaches(i)
          /\ ArgResolves(Tok(i), n)
          /\ args_head[n].value_type = "WIMEY_BOOL"
          /\ args_head[n].long_key # help_arg.long_key )
        => /\ \E k \in 1..Len(writes) :
                 writes[k] = [node |-> n, dest |-> args_head[n].value_dest,
                              at |-> i, val |-> IntVal(1)]
           /\ dest[args_head[n].value_dest] = IntVal(1)
           /\ i + 1 < argc => (i + 1) \in ascan
           /\ i = argc - 1 => pc = "parsed" /\ args_parse = WIMEY_OK

C11_Witness ==
    \E n \in ArgNodes :
        /\ pc = "parsed"
        /\ argc = 3
        /\ ProgIsPlain
        /\ Tok(1) = args_head[n].short_key
        /\ args_head[n].value_type = "WIMEY_BOOL"
        /\ args_head[n].long_key # help_arg.long_key
        /\ Tok(2) = Tok(1)
        /\ Len(writes) = 2
        /\ dest[args_head[n].value_dest] = IntVal(1)

\* C12: a token consumed as the value of a non-boolean argument is not
\* itself matched as an argument key: once the value of the argument at index
\* i is written the scan resumes past index i + 1, so no destination is
\* written for the token at i + 1, even if it equals a registered key.  The
\* token at i is a key and not a value: the token before it is no key.
C12_ValueTokenNotMatchedAsKey ==
    \A n \in ArgNodes : \A i \in 1..(argc - 2) :
        ( /\ Ran
          /\ ArgScanReaches(i)
          /\ Tok(i - 1) \notin ArgKeys
          /\ ArgResolves(Tok(i), n)
          /\ args_head[n].value_type \in {"WIMEY_LONG", "WIMEY_DOUBLE", "WIMEY_STR"} )
        => /\ \E k \in 1..Len(writes) : writes[k].at = i /\ writes[k].node = n
           /\ \A k \in 1..Len(writes) : writes[k].at # i + 1

\* the descriptor was supplied as value-less
ValueLess(argument) == ~argument.has_value \/ ~argument.is_value_required

\* C13: after any sequence of wimey_add_argument calls every descriptor
\* stored in the argument list has has_value = true and is_value_required =
\* true; its type is boolean whenever the descriptor as supplied had
\* has_value = false or is_value_required = false, whatever type was
\* supplied; a descriptor supplied with both flags true keeps its type.
C13_StoredArgumentsNormalized ==
    /\ Len(args_head) = Len(args_added)
    /\ \A n \in ArgNodes :
          /\ args_head[n].has_value
          /\ args_head[n].is_value_required
          /\ ValueLess(args_added[n])
                => args_head[n].value_type = "WIMEY_BOOL"
          /\ ~ValueLess(args_added[n])
                => args_head[n].value_type = args_added[n].value_type

C13_Witness ==
    \E n \in ArgNodes : \E m \in ArgNodes :
        /\ args_added[n].has_value
        /\ ~args_added[n].is_value_required
        /\ args_added[n].value_type = "WIMEY_STR"
        /\ args_head[n].value_type = "WIMEY_BOOL"
        /\ args_head[n].is_value_required
        /\ ~ValueLess(args_added[m])
        /\ args_head[m].value_type = "WIMEY_LONG"

\* the stored argument descriptor is the entry made for the supplied one: it
\* has its keys and its destination
EntryOf(stored, supplied) ==
    /\ stored.long_key = supplied.long_key
    /\ stored.short_key = supplied.short_key
    /\ stored.value_dest = supplied.value_dest

\* C14: after any sequence of init, add_command, add_argument, parse and
\* free_all operations the command list (resp. the argument list) holds, in
\* order, exactly the entries of the descriptors passed to the successful
\* add_command (resp. add_argument) calls since the last init or free_all:
\* adds append at the tail, no entry is removed or reordered, and parse
\* changes neither list.  A command entry is the descriptor passed; an
\* argument entry is the descriptor passed with its flags and type as stored.
C14_ListsAreTheAddsInOrder ==
    /\ cmds_head = cmds_added
    /\ Len(args_head) = Len(args_added)
    /\ \A n \in ArgNodes : EntryOf(args_head[n], args_added[n])

C14_Witness ==
    /\ pc = "parsed"
    /\ last_op.op = "wimey_parse"
    /\ Len(cmds_added) = 2
    /\ cmds_added[1] # cmds_added[2]
    /\ cmds_head = cmds_added
    /\ Len(args_added) = 2
    /\ args_added[1].long_key # args_added[2].long_key
    /\ calls # <<>>

\* C15: wimey_free_all leaves both lists empty whatever they held, and so
\* does wimey_init; the add_command and add_argument calls that follow
\* produce lists holding only the newly added entries; a parse with nothing
\* registered succeeds, invokes no callback and writes no destination.
C15_TeardownEmptiesBothLists ==
    /\ last_op.op \in {"wimey_free_all", "wimey_init"}
          => cmds_head = <<>> /\ args_head = <<>>
    /\ Len(cmds_head) = Len(cmds_added)
    /\ Len(args_head) = Len(args_added)
    /\ (last_op.op = "wimey_add_command" /\ Len(cmds_head) = last_op.cmds + 1)
          => cmds_head[Len(cmds_head)] = cmds_added[Len(cmds_added)]
    /\ (last_op.op = "wimey_add_argument" /\ Len(args_head) = last_op.args + 1)
          => EntryOf(args_head[Len(args_head)], args_added[Len(args_added)])
    /\ (pc = "parsed" /\ cmds_added = <<>> /\ args_added = <<>>)
          => result = WIMEY_OK /\ calls = <<>> /\ writes = <<>>

C15_Witness ==
    /\ last_op.op = "wimey_free_all"
    /\ last_op.cmds = 2
    /\ last_op.args = 2
    /\ cmds_head = <<>>
    /\ args_head = <<>>

\* the command scan aborts at index i: the token there is the key of a
\* command that requires a value and no token follows it
CmdScanAbortsAt(i) ==
    /\ argc >= 2
    /\ i = argc - 1
    /\ \E n \in CmdNodes :
          /\ CmdResolves(n)
          /\ Tok(i) = cmds_head[n].key
          /\ cmds_head[n].is_value_required

\* C16: the command scan does not stop at the first match and does not roll
\* back: when a missing required value aborts it at index i, the callback of
\* every value-accepting command matched at an index below i has been
\* invoked and stays recorded, no callback is invoked for the aborting
\* command or for a later token, and the scan reports failure.
C16_AbortKeepsEarlierCallbacks ==
    \A i \in 0..(argc - 1) :
        (Ran /\ CmdScanAbortsAt(i))
        => /\ cmds_parse = WIMEY_ERR \/ pc # "parsed"
           /\ pc = "parsed" => result = WIMEY_ERR
           /\ cmds_at = i
           /\ \A k \in 1..Len(calls) : calls[k].at < i
           /\ \A j \in 1..(i - 1) : \A n \in CmdNodes :
                 ( /\ CmdResolves(n)
                   /\ Tok(j) = cmds_head[n].key
                   /\ cmds_head[n].has_value )
                 => \E k \in 1..Len(calls) :
                       calls[k].at = j /\ calls[k].node = n

C16_Witness ==
    \E n \in CmdNodes : \E m \in CmdNodes :
        /\ pc = "parsed"
        /\ argc = 3
        /\ ProgIsPlain
        /\ CmdScanAbortsAt(2)
        /\ Tok(2) = cmds_head[n].key
        /\ m # n
        /\ Tok(1) = cmds_head[m].key
        /\ calls = <<[node |-> m, value |-> NULL, at |-> 1]>>
        /\ cmds_parse = WIMEY_ERR

\* the tokens of the vector av
TokensOf(av) == {av[k] : k \in 1..Len(av)}

\* C17: wimey_parse leaves the token vector it is given and every registered
\* command and argument descriptor unchanged, and the only host storage it
\* writes is the destination of an argument whose long or short key occurs as
\* a token: the destination of a registered argument whose keys occur nowhere
\* in argv has the same value after the parse as before.  (Arguments with
\* different keys do not share a destination.)
C17_ParseWritesOnlyMatchedDestinations ==
    [][ (pc = "ready" /\ pc' # "ready")
        => /\ cmds_head' = cmds_head
           /\ args_head' = args_head
           /\ \A k \in 1..Len(writes') :
                 /\ writes'[k].at \in 0..(Len(argv') - 1)
                 /\ \E n \in ArgNodes :
                       /\ args_head[n].value_dest = writes'[k].dest
                       /\ argv'[writes'[k].at + 1] \in
                             {args_head[n].long_key, args_head[n].short_key}
           /\ \A n \in ArgNodes :
                 ( /\ args_head[n].value_dest \in DestIds
                   /\ args_head[n].long_key \notin TokensOf(argv')
                   /\ args_head[n].short_key \notin TokensOf(argv') )
                 => dest'[args_head[n].value_dest] = dest[args_head[n].value_dest]
      ]_vars

C17_Witness ==
    \E n \in ArgNodes : \E m \in ArgNodes :
        /\ pc = "parsed"
        /\ cmds_head # <<>>
        /\ args_head[n].long_key \notin TokensOf(argv)
        /\ args_head[n].short_key \notin TokensOf(argv)
        /\ args_head[n].value_dest \in DestIds
        /\ dest[args_head[n].value_dest] = Unset
        /\ args_head[m].short_key \in TokensOf(argv)
        /\ args_head[m].value_dest \in DestIds
        /\ dest[args_head[m].value_dest] = LongVal(5)

\* t is an optional sign followed by one or more digits
IsNumeral(t) ==
    \/ t # <<>> /\ \A k \in 1..Len(t) : IsDigit(t[k])
    \/ /\ Len(t) >= 2
       /\ t[1] \in {"+", "-"}
       /\ \A k \in 2..Len(t) : IsDigit(t[k])

\* the numeral t does not fit a long
Overflows(t) ==
    /\ IsNumeral(t)
    /\ IF IsDigit(t[1]) THEN OutOfLongRange(StripZeros(t), FALSE)
       ELSE OutOfLongRange(StripZeros(Tail(t)), t[1] = "-")

\* C18: wimey_val_to_long signals failure, that is reports the conversion
\* diagnostic and returns the sentinel, for every input that is absent
\* (NULL), is the empty string, ends in non-numeric characters or overflows
\* the range of a long; for a well-formed base-10 input in range it returns
\* the value without a diagnostic.
C18_ToIntegerSignalsFailure ==
    conv.done
    => /\ ( \/ conv.val = NULL
            \/ conv.val = <<>>
            \/ conv.val # <<>> /\ ~IsDigit(conv.val[Len(conv.val)])
            \/ Overflows(conv.val) )
          => conv.err /\ conv.v = WIMEY_ERR
       /\ (conv.val # NULL /\ IsDecimal(conv.val))
          => ~conv.err /\ conv.v = DecimalValue(conv.val)

\* C19: neither scanner reads the token vector at an index greater than or
\* equal to argc: every access argv[k] of the command scan and of the
\* argument scan, the access at k = i + 1 included, has 0 <= k < argc.
C19_ScannersReadInsideArgv ==
    Ran => \A k \in creads \cup areads : 0 <= k /\ k < argc

\* C20: the two scanners do not interfere.  For a fixed token vector the
\* callback invocations, with their values, and the status of the command
\* scan are the same whatever the argument list holds, and the destinations
\* written and the status of the argument scan are the same whatever the
\* command list holds.  In particular a token consumed as the value of a
\* command is still examined by the argument scan, and a token consumed as
\* the value of an argument is still examined by the command scan.  The
\* call observed is compared with an earlier call on the same vector (ref).
C20_ScannersDoNotInterfere ==
    /\ (Ran /\ ref.done /\ ref.argv = argv /\ ref.cmds_head = cmds_head)
          => calls = ref.calls /\ cmds_parse = ref.cmds_parse
    /\ (Ran /\ ref.done /\ ref.argv = argv /\ ref.args_head = args_head)
          => /\ writes = ref.writes
             /\ dest = ref.dest
             /\ args_parse = ref.args_parse
    /\ \A k \in 1..Len(calls) :
          ( /\ Ran
            /\ calls[k].value # NULL
            /\ args_head # <<>>
            /\ ArgScanReaches(calls[k].at + 1) )
          => (calls[k].at + 1) \in ascan
    /\ \A k \in 1..Len(writes) :
          ( /\ Ran
            /\ args_head[writes[k].node].value_type # "WIMEY_BOOL"
            /\ writes[k].at + 1 < argc
            /\ Len(cmds_head) > 0
            /\ Tok(writes[k].at) \notin CmdKeys )
          => (writes[k].at + 1) \in cscan

C20_Witness ==
    /\ pc = "parsed"
    /\ ref.done
    /\ ref.argv = argv
    /\ ref.cmds_head = cmds_head
    /\ ref.args_head = <<>>
    /\ args_head # <<>>
    /\ calls = <<[node |-> 1, value |-> tok_c, at |-> 1]>>
    /\ ref.calls = calls
    /\ ref.writes = <<>>
    /\ dest["count"] = LongVal(5)

\* t holds no white space
NoSpace(t) == \A k \in 1..Len(t) : ~IsSpace(t[k])

\* t does not start with a decimal number: an optional sign, then a digit, or
\* a point and a digit
NotANumber(t) ==
    LET u == IF t # <<>> /\ t[1] \in {"+", "-"} THEN Tail(t) ELSE t
    IN ~ \/ u # <<>> /\ IsDigit(u[1])
         \/ Len(u) >= 2 /\ u[1] = "." /\ IsDigit(u[2])

\* the numeral t is beyond the range of a double
OverflowsDouble(t) ==
    /\ IsNumeral(t)
    /\ IF IsDigit(t[1]) THEN OutOfDoubleRange(StripZeros(t))
       ELSE OutOfDoubleRange(StripZeros(Tail(t)))

\* the token t cannot be converted to the given type: it is not numeric, it
\* is an integer with trailing characters, or it is out of range
Unconvertible(value_type, t) ==
    /\ NoSpace(t)
    /\ CASE value_type = "WIMEY_LONG" -> ~IsNumeral(t) \/ Overflows(t)
         [] value_type = "WIMEY_DOUBLE" -> NotANumber(t) \/ OverflowsDouble(t)
         [] OTHER -> FALSE

\* the conversion of the token t to the given type fails: an integer that is
\* not numeric, has trailing characters or is out of range, a floating-point
\* value that does not start with a number
ConversionFails(value_type, t) ==
    /\ NoSpace(t)
    /\ CASE value_type = "WIMEY_LONG" -> ~IsNumeral(t) \/ Overflows(t)
         [] value_type = "WIMEY_DOUBLE" -> NotANumber(t)
         [] OTHER -> FALSE

\* the sentinel of the given type
Sentinel(value_type) ==
    IF value_type = "WIMEY_LONG" THEN LongVal(WIMEY_ERR)
    ELSE DoubleVal(WIMEY_ERR, 0)

\* the vector of the observed call with the token at index i replaced by t
ArgvWith(i, t) == [argv EXCEPT ![i + 1] = t]

\* how wimey_parse ends with the command scan outcome c and the argument scan
\* outcome a: pc afterwards and the status returned
WouldEnd(c, a) ==
    [pc |-> CASE a.end = "return" -> "parsed"
              [] a.end = "exit" -> "exited"
              [] a.end = "crash" -> "crashed",
     result |-> IF a.end = "return" THEN ParseStatus(c.ret, a.ret) ELSE NONE]

\* how wimey_parse would end on the vector av with the registrations of the
\* observed call
Would(av) ==
    WouldEnd(__wimey_parse_commands(av),
             __wimey_parse_arguments(av, IF pc = "crashed" THEN "crash"
                                         ELSE "null"))

\* the argument scan of the observed call reaches index i, where the token is
\* a key of node n, an integer or floating-point argument with a destination,
\* and the token after it is a value, not itself a registered key
ValueAt(n, i) ==
    /\ Ran
    /\ ArgScanReaches(i)
    /\ ArgResolves(Tok(i), n)
    /\ args_head[n].value_type \in {"WIMEY_LONG", "WIMEY_DOUBLE"}
    /\ args_head[n].value_dest \in DestIds
    /\ Tok(i + 1) \notin ArgKeys \cup CmdKeys

\* the scan writes v for node n at index i, examines the next token, and
\* wimey_parse ends as it would with the valid value 5 at index i + 1
WrittenAndOn(n, i, v) ==
    /\ \E k \in 1..Len(writes) :
          writes[k] = [node |-> n, dest |-> args_head[n].value_dest,
                       at |-> i, val |-> v]
    /\ (i + 1) \in ascan
    /\ [pc |-> pc, result |-> result] = Would(ArgvWith(i + 1, tok_5))

\* C21, as stated: when the token after a registered integer or
\* floating-point argument cannot be converted (it is not numeric, it is an
\* integer with trailing characters, or it is out of range), the argument
\* scan does not abort: the sentinel 0 is written to the destination, the
\* scan goes on with the next token, and wimey_parse returns the status it
\* would have returned for a valid value.
C21_UnconvertibleWritesZero ==
    \A n \in ArgNodes : \A i \in 0..(argc - 2) :
        (ValueAt(n, i) /\ Unconvertible(args_head[n].value_type, Tok(i + 1)))
        => WrittenAndOn(n, i, Sentinel(args_head[n].value_type))

\* C21, amended: when the conversion of the token after a registered integer
\* or floating-point argument fails (an integer that is not numeric, has
\* trailing characters or is out of range; a floating-point value that does
\* not start with a number), the argument scan does not abort: the sentinel 0
\* is written to the destination, the scan goes on with the next token, and
\* wimey_parse returns the status it would have returned for a valid value.
\* A floating-point numeral beyond the range of a double is no failure of the
\* conversion: HUGE_VAL with the sign of the numeral is written, and the scan
\* goes on in the same way.
C21_FailedConversionWritesZero ==
    \A n \in ArgNodes : \A i \in 0..(argc - 2) :
        /\ (ValueAt(n, i) /\ ConversionFails(args_head[n].value_type, Tok(i + 1)))
           => WrittenAndOn(n, i, Sentinel(args_head[n].value_type))
        /\ ( /\ ValueAt(n, i)
             /\ args_head[n].value_type = "WIMEY_DOUBLE"
             /\ NoSpace(Tok(i + 1))
             /\ OverflowsDouble(Tok(i + 1)) )
           => WrittenAndOn(n, i, HugeVal(IF Tok(i + 1)[1] = "-" THEN 0 - 1
                                         ELSE 1))

C21_Witness ==
    \E n \in ArgNodes : \E m \in ArgNodes :
        /\ pc = "parsed"
        /\ argc = 7
        /\ ValueAt(n, 3)
        /\ args_head[n].value_type = "WIMEY_DOUBLE"
        /\ Tok(4) = tok_x
        /\ dest[args_head[n].value_dest] = DoubleVal(0, 0)
        /\ ArgResolves(Tok(5), m)
        /\ dest[args_head[m].value_dest] = LongVal(5)
        /\ calls = <<[node |-> 1, value |-> tok_5, at |-> 1]>>
        /\ result = WIMEY_OK

\* C22: whenever at least one command is registered, wimey_parse on a vector
\* of fewer than 2 tokens makes the command scan fail before it examines a
\* token: no callback is invoked, whether or not a registered command
\* requires a value, and the status wimey_parse returns is failure; it does
\* return when the only token is no registered argument key.  With an empty
\* command registry the command scan of the same vector succeeds.
C22_ShortVectorFailsCommandScan ==
    (Ran /\ argc < 2)
    => /\ cmds_head # <<>>
          => /\ cmds_parse = WIMEY_ERR
             /\ calls = <<>>
             /\ cscan = {}
             /\ pc = "parsed" => result = WIMEY_ERR
             /\ (argc = 0 \/ Tok(0) \notin ArgKeys) => pc = "parsed"
       /\ cmds_head = <<>>
          => cmds_parse = WIMEY_OK /\ calls = <<>>

C22_Witness ==
    /\ pc = "parsed"
    /\ argv = <<tok_prog>>
    /\ cmds_head # <<>>
    /\ \A n \in CmdNodes :
          ~cmds_head[n].has_value /\ ~cmds_head[n].is_value_required
    /\ args_head # <<>>
    /\ cmds_parse = WIMEY_ERR
    /\ args_parse = WIMEY_OK
    /\ result = WIMEY_ERR
    /\ calls = <<>>

\* every registration has added an entry, and every callback invocation and
\* every write of the observed call is made by the first registered entry
\* with a key equal to the token
FirstRegisteredWins ==
    /\ Len(cmds_head) = Len(cmds_added)
    /\ Len(args_head) = Len(args_added)
    /\ \A k \in 1..Len(calls) :
          /\ cmds_head[calls[k].node].key = Tok(calls[k].at)
          /\ CmdResolves(calls[k].node)
    /\ \A k \in 1..Len(writes) :
          ArgResolves(Tok(writes[k].at), writes[k].node)
    /\ \A m \in CmdNodes : ~CmdResolves(m) => CallsOf(m) = {}

\* the destination of the argument node m is written by the observed call
\* for a token at some index
WrittenFor(m) == \E k \in 1..Len(writes) : writes[k].node = m

\* C23, as stated: registration never rejects a duplicate key, and lookup is
\* first-registered-wins: when two commands share a key, or two arguments
\* share a long or short key, a matching token resolves to the entry
\* registered first, so the later entry's callback is never invoked and its
\* destination is never written by any parse.
C23_LaterDuplicateNeverUsed ==
    Ran
    => /\ FirstRegisteredWins
       /\ \A n \in ArgNodes : \A m \in ArgNodes :
             ( /\ n < m
               /\ \/ args_head[n].long_key = args_head[m].long_key
                  \/ args_head[n].short_key = args_head[m].short_key )
             => ~WrittenFor(m)

\* C23, amended: registration never rejects a duplicate key, and lookup is
\* first-registered-wins: a token resolves to the first registered entry
\* that has it as a key.  The callback of a command registered after another
\* with the same key is never invoked.  An argument registered after others
\* is written only for a token that is one of its keys and a key of no
\* earlier argument: never when both its keys are held by earlier arguments,
\* but still through its own key when it shares only the other one.
C23_FirstRegisteredWins ==
    Ran
    => /\ FirstRegisteredWins
       /\ \A m \in ArgNodes :
             ( /\ \E n \in 1..(m - 1) :
                     args_head[m].long_key \in
                         {args_head[n].long_key, args_head[n].short_key}
               /\ \E n \in 1..(m - 1) :
                     args_head[m].short_key \in
                         {args_head[n].long_key, args_head[n].short_key} )
             => ~WrittenFor(m)

C23_Witness ==
    /\ pc = "parsed"
    /\ argc = 7
    /\ Len(cmds_head) = 2
    /\ cmds_head[1].key = cmds_head[2].key
    /\ cmds_head[1].callback = "command_a1"
    /\ cmds_head[2].callback = "command_a"
    /\ calls = <<[node |-> 1, value |-> tok_5, at |-> 1]>>
    /\ Len(args_head) = 2
    /\ args_head[1].short_key = args_head[2].short_key
    /\ args_head[1].value_dest = "count"
    /\ args_head[2].value_dest = "version"
    /\ Tok(3) = args_head[2].short_key
    /\ dest["count"] = LongVal(5)
    /\ dest["version"] = Unset

====
